---- MODULE Spec2Model ----
(***************************************************************************)
(* Model of btc_terminal.py: the PriceStore, the Binance and Coinbase      *)
(* WebSocket adapters with their reconnect loops, and the display loop.    *)
(*                                                                         *)
(* Units.  Numeric message fields are whole numbers; float(x) yields the   *)
(* value in half-units (2*x), so that the Coinbase mid price (bid+ask)/2   *)
(* is an integer of the model.  A stored price p of the model is the       *)
(* Python float p/2.  time.time() is the variable now, in seconds; every   *)
(* handler runs between two awaits, so all its time.time() calls read the  *)
(* same value.  The clock is taken to be non-decreasing.                   *)
(***************************************************************************)
EXTENDS Integers, Sequences, FiniteSets, TLC

\* ---------------------------------------------------------------- bounds
\* Horizon of the clock (seconds).
MaxTime == 3
\* Largest numeric value a message field carries.
MaxPrice == 2
\* Largest row and column index random.randint is taken to draw in place_food.
MaxRand == 0
\* Frames of a snake game that display_loop is followed through.
MaxFrames == 2
\* Largest row and column index of the food cells when the snake is followed on
\* its own, and the frames one game is followed through then.
MaxFood == 1
MaxTicks == 60

\* ------------------------------------------------------- program constants
ASSETS == {"BTC", "ETH", "SOL", "XRP"}

BINANCE_SYMBOLS ==
  [a \in ASSETS |-> CASE a = "BTC" -> "btcusdt"
                      [] a = "ETH" -> "ethusdt"
                      [] a = "SOL" -> "solusdt"
                      [] a = "XRP" -> "xrpusdt"]

COINBASE_PRODUCTS ==
  [p \in {"BTC-USD", "BTC-USDT", "ETH-USD", "ETH-USDT",
          "SOL-USD", "SOL-USDT", "XRP-USD", "XRP-USDT"} |->
     CASE p \in {"BTC-USD", "BTC-USDT"} -> "BTC"
       [] p \in {"ETH-USD", "ETH-USDT"} -> "ETH"
       [] p \in {"SOL-USD", "SOL-USDT"} -> "SOL"
       [] p \in {"XRP-USD", "XRP-USDT"} -> "XRP"]

\* asyncio.sleep(3) in both except clauses.
RETRY_DELAY == 3

\* Python's None for a dict lookup that finds nothing (a string-valued lookup).
NoneStr == "None"
\* Python's None for a store entry; an entry is the tuple <<price, time>>.
None == <<>>

\* ----------------------------------------------------------- message fields
\* A JSON field: a numeric string, a non-numeric string, or not there at all.
Num(n) == [kind |-> "num", v |-> n]
Text == [kind |-> "text", v |-> 0]
Missing == [kind |-> "missing", v |-> 0]
\* A string-valued field that is not there.
Absent == "<absent>"

\* dict.get(field, default) for a string-valued field.
GetStr(field, default) == IF field = Absent THEN default ELSE field
\* dict.get(field, default) for a numeric field; the default is a number.
GetNum(field, default) == IF field.kind = "missing" THEN Num(default) ELSE field

\* float(x) raises on a non-numeric string (ValueError).
FloatRaises(field) == field.kind # "num"
\* float(x), in half-units.
Float(field) == 2 * field.v

\* ------------------------------------------------------------- PriceStore
BinanceKey(asset) == "binance_" \o asset
CoinbaseKey(asset, suffix) == "coinbase_" \o asset \o "_" \o suffix

Keys == {BinanceKey(a) : a \in ASSETS}
          \cup {CoinbaseKey(a, s) : a \in ASSETS, s \in {"usd", "usdt"}}

VARIABLES
  prices,    \* PriceStore.prices: key -> <<price, time>>, or None (no entry)
  now,       \* time.time()
  st,        \* per adapter: "connecting", "subscribing", "connected", "sleeping"
  wake,      \* per adapter: the time its asyncio.sleep(3) ends
  sent,      \* what the Coinbase adapter sent on its connection, in order
  dpc,       \* display_loop: "start" before its first frame, then "sleeping"
  snake,     \* the Snake object
  conns,     \* history: connections coinbase_ws made: "none", "first", "again"
  last,      \* history: key -> the <<price, time>> of the last update call
  replaced,  \* history of direct store calls: <<key, entry the last call replaced>>
  wire,      \* history: the one message followed through its handler, or NoWire
  proc,      \* the process: "running", "interrupted" (Ctrl+C seen), "exited"
  farewell   \* the number of times "Terminal closed." was printed

vars == <<prices, now, st, wake, sent, dpc, snake, conns, last, replaced,
          wire, proc, farewell>>

Adapters == {"binance", "coinbase"}

\* No message is followed.
NoWire == <<>>

\* update, were it to keep the higher of the old and the new price.
update_keepmax(store, key, price, t) ==
  IF store[key] # None /\ store[key][1] > price THEN store
  ELSE [store EXCEPT ![key] = <<price, t>>]

\* update, were it to write the price alone into an entry that is there.
update_price_only(store, key, price, t) ==
  IF store[key] # None THEN [store EXCEPT ![key] = <<price, store[key][2]>>]
  ELSE [store EXCEPT ![key] = <<price, t>>]

\* update, were it to drop the entry on a price that is not positive.
update_evict(store, key, price, t) ==
  IF price <= 0 THEN [store EXCEPT ![key] = None]
  ELSE [store EXCEPT ![key] = <<price, t>>]

\* PriceStore.update
update(store, key, price, t) == [store EXCEPT ![key] = <<price, t>>]

\* PriceStore.get
get(store, key) == store[key]

\* age, were it to subtract the wrong way round.
age_flipped(store, key, t) ==
  LET entry == store[key]
  IN IF entry = None THEN [inf |-> TRUE, s |-> 0]
     ELSE [inf |-> FALSE, s |-> entry[2] - t]

\* age, were an entry older than 2 seconds to count as no entry.
age_ttl(store, key, t) ==
  LET entry == store[key]
  IN IF entry = None \/ t - entry[2] > 2 THEN [inf |-> TRUE, s |-> 0]
     ELSE [inf |-> FALSE, s |-> t - entry[2]]

\* PriceStore.age: [inf |-> TRUE] stands for float("inf"), else s is the seconds
age(store, key, t) ==
  LET entry == store[key]
  IN IF entry = None THEN [inf |-> TRUE, s |-> 0]
     ELSE [inf |-> FALSE, s |-> t - entry[2]]

\* ------------------------------------------------------------ binance_ws
\* str.lower() on the symbols the feed is taken to send.
Lower(s) == CASE s = "BTCUSDT" -> "btcusdt"
              [] s = "BtcUsdt" -> "btcusdt"
              [] s = "ETHUSDT" -> "ethusdt"
              [] s = "SOLUSDT" -> "solusdt"
              [] s = "XrpUsdt" -> "xrpusdt"
              [] OTHER -> s

\* sym_to_asset, were a symbol that is not there to be taken for BTC.
sym_to_asset_default(symbol) ==
  IF \E a \in ASSETS : BINANCE_SYMBOLS[a] = symbol
  THEN CHOOSE a \in ASSETS : BINANCE_SYMBOLS[a] = symbol
  ELSE "BTC"

\* sym_to_asset.get(symbol): the inverse of BINANCE_SYMBOLS, None when not there
sym_to_asset(symbol) ==
  IF \E a \in ASSETS : BINANCE_SYMBOLS[a] = symbol
  THEN CHOOSE a \in ASSETS : BINANCE_SYMBOLS[a] = symbol
  ELSE NoneStr

\* What handling one inbound message comes to: a store update, nothing, or an
\* exception that leaves the "async for" and the "async with".
DoUpdate(key, price) == [kind |-> "update", key |-> key, price |-> price, why |-> ""]
DoSkip == [kind |-> "skip", key |-> "", price |-> 0, why |-> ""]
DoRaise(why) == [kind |-> "raise", key |-> "", price |-> 0, why |-> why]

\* data.get("data", data)
Payload(data) == IF data.data.has THEN data.data ELSE data

\* The body of "async for msg in ws" in binance_ws.
BinanceOnMessage(msg) ==
  IF ~msg.json THEN DoRaise("JSONDecodeError")
  ELSE LET payload == Payload(msg)
           symbol == Lower(GetStr(payload.s, ""))
           asset == sym_to_asset(symbol)
       IN IF asset # NoneStr
          THEN IF payload.p.kind = "missing" THEN DoRaise("KeyError")
               ELSE IF FloatRaises(payload.p) THEN DoRaise("ValueError")
               ELSE DoUpdate(BinanceKey(asset), Float(payload.p))
          ELSE DoSkip

\* ----------------------------------------------------------- coinbase_ws
\* COINBASE_PRODUCTS.get(product)
ProductAsset(product) ==
  IF product \in DOMAIN COINBASE_PRODUCTS THEN COINBASE_PRODUCTS[product]
  ELSE NoneStr

\* EndsWithUSD, were the test "-USD" in product.
EndsWithUSD_in(product) == product # ""

\* product.endswith("-USD"), on the product ids the feed is taken to send
EndsWithUSD(product) ==
  product \in {"BTC-USD", "ETH-USD", "SOL-USD", "XRP-USD", "DOGE-USD"}

\* CoinbaseOnMessage, were the mid price taken when either side is positive.
CoinbaseOnMessage_or(msg) ==
  IF ~msg.json THEN DoRaise("JSONDecodeError")
  ELSE IF GetStr(msg.type, NoneStr) # "ticker" THEN DoSkip
  ELSE LET product == GetStr(msg.product_id, "")
           asset == ProductAsset(product)
       IN IF asset = NoneStr THEN DoSkip
          ELSE LET suffix == IF EndsWithUSD(product) THEN "usd" ELSE "usdt"
                   bidf == GetNum(msg.best_bid, 0)
                   askf == GetNum(msg.best_ask, 0)
               IN IF FloatRaises(bidf) THEN DoRaise("ValueError")
                  ELSE IF FloatRaises(askf) THEN DoRaise("ValueError")
                  ELSE IF Float(bidf) > 0 \/ Float(askf) > 0
                       THEN DoUpdate(CoinbaseKey(asset, suffix),
                                     (Float(bidf) + Float(askf)) \div 2)
                       ELSE IF msg.price.kind = "missing" THEN DoRaise("KeyError")
                       ELSE IF FloatRaises(msg.price) THEN DoRaise("ValueError")
                       ELSE DoUpdate(CoinbaseKey(asset, suffix), Float(msg.price))

\* The body of "async for msg in ws" in coinbase_ws.
CoinbaseOnMessage(msg) ==
  IF ~msg.json THEN DoRaise("JSONDecodeError")
  ELSE IF GetStr(msg.type, NoneStr) # "ticker" THEN DoSkip
  ELSE LET product == GetStr(msg.product_id, "")
           asset == ProductAsset(product)
       IN IF asset = NoneStr THEN DoSkip
          ELSE LET suffix == IF EndsWithUSD(product) THEN "usd" ELSE "usdt"
                   bidf == GetNum(msg.best_bid, 0)
                   askf == GetNum(msg.best_ask, 0)
               IN IF FloatRaises(bidf) THEN DoRaise("ValueError")
                  ELSE IF FloatRaises(askf) THEN DoRaise("ValueError")
                  ELSE IF Float(bidf) > 0 /\ Float(askf) > 0
                       THEN DoUpdate(CoinbaseKey(asset, suffix),
                                     (Float(bidf) + Float(askf)) \div 2)
                       ELSE IF msg.price.kind = "missing" THEN DoRaise("KeyError")
                       ELSE IF FloatRaises(msg.price) THEN DoRaise("ValueError")
                       ELSE DoUpdate(CoinbaseKey(asset, suffix), Float(msg.price))

\* ------------------------------------------------------ inbound messages
\* The field values the feeds are taken to send.
PriceFields == {Num(n) : n \in -1..MaxPrice} \cup {Text, Missing}
\* The field values of a feed that quotes the one price 1.
PlainFields == {Num(1), Text, Missing}

NoData == [has |-> FALSE, s |-> Absent, p |-> Missing]

\* Binance: text that is no JSON, a bare trade, a combined-stream trade under "data".
BinanceMsgs(fields) ==
  {[json |-> FALSE, data |-> NoData, s |-> Absent, p |-> Missing]}
  \cup {[json |-> TRUE, data |-> NoData, s |-> s, p |-> p] :
           s \in {"btcusdt", "BTCUSDT", "dogeusdt", Absent}, p \in fields}
  \cup {[json |-> TRUE, data |-> [has |-> TRUE, s |-> s, p |-> p],
         s |-> Absent, p |-> Missing] :
           s \in {"btcusdt", "BTCUSDT", "dogeusdt", Absent}, p \in fields}

CoinbaseMsg(json, type, product, bid, ask, price) ==
  [json |-> json, type |-> type, product_id |-> product,
   best_bid |-> bid, best_ask |-> ask, price |-> price]

\* Coinbase: text that is no JSON, a non-ticker message, a ticker of an unknown
\* product, a ticker of the product BTC-USD with any bid, ask and price fields.
CoinbaseMsgs(fields) ==
  {CoinbaseMsg(FALSE, Absent, Absent, Missing, Missing, Missing)}
  \cup {CoinbaseMsg(TRUE, t, "BTC-USD", Num(1), Num(1), Num(1)) :
           t \in {"subscriptions", Absent}}
  \cup {CoinbaseMsg(TRUE, "ticker", p, Num(1), Num(1), Num(1)) :
           p \in {"DOGE-USD", Absent}}
  \cup {CoinbaseMsg(TRUE, "ticker", p, b, a, x) :
           p \in {"BTC-USD"}, b \in fields, a \in fields, x \in fields}

\* What the messages of a feed come to, message by message.
BinanceOutcomes == {BinanceOnMessage(msg) : msg \in BinanceMsgs(PriceFields)}
CoinbaseOutcomes == {CoinbaseOnMessage(msg) : msg \in CoinbaseMsgs(PriceFields)}
Outcomes(a) == IF a = "binance" THEN BinanceOutcomes ELSE CoinbaseOutcomes

BinancePlainOutcomes == {BinanceOnMessage(msg) : msg \in BinanceMsgs(PlainFields)}
CoinbasePlainOutcomes == {CoinbaseOnMessage(msg) : msg \in CoinbaseMsgs(PlainFields)}
PlainOutcomes(a) ==
  IF a = "binance" THEN BinancePlainOutcomes ELSE CoinbasePlainOutcomes

\* ------------------------------------------------------------------ Snake
WIDTH == 56
HEIGHT == 12

\* The cells random.randint is taken to draw in place_food: rows and columns
\* 0..MaxRand of the grid.
FoodCells(n) ==
  {<<r, c>> : r \in {x \in 0..(HEIGHT - 1) : x <= n},
              c \in {x \in 0..(WIDTH - 1) : x <= n}}
RandCells == FoodCells(MaxRand)

Range(seq) == {seq[i] : i \in 1..Len(seq)}
Abs(x) == IF x < 0 THEN -x ELSE x

\* What place_food can leave in self.food: a drawn cell that is not occupied, or
\* (0, 0) when all 200 draws hit an occupied cell.
place_food_in(cells, body) == {c \in cells : c \notin Range(body)} \cup {<<0, 0>>}
place_food(body) == place_food_in(RandCells, body)

\* Snake.reset in __init__, with the cell place_food comes to.
reset(food) ==
  LET mid_y == HEIGHT \div 2
      mid_x == WIDTH \div 4
  IN [body |-> <<<<mid_y, mid_x + 2>>, <<mid_y, mid_x + 1>>, <<mid_y, mid_x>>>>,
      direction |-> <<0, 1>>,
      food |-> food,
      score |-> 0,
      high_score |-> 0,
      tick_count |-> 0]

\* is_safe(dr, dc) of ai_direction; occupied is set(self.body[:-1])
is_safe(s, m) ==
  LET nr == s.body[1][1] + m[1]
      nc == s.body[1][2] + m[2]
  IN /\ 0 <= nr /\ nr < HEIGHT /\ 0 <= nc /\ nc < WIDTH
     /\ <<nr, nc>> \notin Range(SubSeq(s.body, 1, Len(s.body) - 1))

\* dist_to_food(dr, dc) of ai_direction
dist_to_food(s, m) ==
  Abs(s.body[1][1] + m[1] - s.food[1]) + Abs(s.body[1][2] + m[2] - s.food[2])

\* Snake.ai_direction: the first of the safe moves, in the order of the list
\* "moves", that is nearest to the food (list.sort is stable).
ai_direction(s) ==
  LET moves == <<<<0, 1>>, <<0, -1>>, <<1, 0>>, <<-1, 0>>>>
      reverse == <<-s.direction[1], -s.direction[2]>>
      safe == {i \in 1..4 : moves[i] # reverse /\ is_safe(s, moves[i])}
  IN IF safe = {} THEN s.direction
     ELSE moves[CHOOSE i \in safe :
                  \A j \in safe :
                    \/ dist_to_food(s, moves[i]) < dist_to_food(s, moves[j])
                    \/ /\ dist_to_food(s, moves[i]) = dist_to_food(s, moves[j])
                       /\ i <= j]

\* self.reset() on the snake s: every field is set anew, high_score too.
reset_from(s, food) ==
  [s EXCEPT !.body = reset(food).body,
            !.direction = reset(food).direction,
            !.food = food,
            !.score = 0,
            !.high_score = 0,
            !.tick_count = 0]

\* move, were the snake to go on whatever the cell ahead is.
move_nocheck(s, new_head, food) ==
  IF new_head = s.food
  THEN [s EXCEPT !.body = <<new_head>> \o s.body,
                 !.score = s.score + 1,
                 !.food = food]
  ELSE [s EXCEPT !.body = <<new_head>> \o SubSeq(s.body, 1, Len(s.body) - 1)]

\* The part of Snake.tick after "self.direction = self.ai_direction()": s has the
\* new direction, new_head is the cell ahead, food the cell place_food comes to.
move(s, new_head, food) ==
  IF \/ new_head[1] < 0 \/ new_head[1] >= HEIGHT
     \/ new_head[2] < 0 \/ new_head[2] >= WIDTH
     \/ new_head \in Range(s.body)
  THEN LET high_score == IF s.score > s.high_score THEN s.score ELSE s.high_score
       IN reset_from([s EXCEPT !.high_score = high_score], food)
  ELSE IF new_head = s.food
       THEN [s EXCEPT !.body = <<new_head>> \o s.body,
                      !.score = s.score + 1,
                      !.food = food]
       ELSE [s EXCEPT !.body = <<new_head>> \o SubSeq(s.body, 1, Len(s.body) - 1)]

\* Snake.tick, with the cell place_food comes to when tick calls it.
tick(s, food) ==
  IF (s.tick_count + 1) % 2 # 0 THEN [s EXCEPT !.tick_count = s.tick_count + 1]
  ELSE CHOOSE next \in
         {move([s EXCEPT !.tick_count = s.tick_count + 1, !.direction = d],
               <<s.body[1][1] + d[1], s.body[1][2] + d[2]>>, food) :
            d \in {ai_direction(s)}} : TRUE

\* The cells place_food can come to when tick calls it in s: a tick that moves
\* into a wall or the body resets and places food by the reset body, a tick that
\* eats places it by the grown body, any other tick places none.
tick_food_in(drawn, s) ==
  IF (s.tick_count + 1) % 2 # 0 THEN {s.food}
  ELSE CHOOSE cells \in
         {LET new_head == <<s.body[1][1] + d[1], s.body[1][2] + d[2]>>
          IN IF \/ new_head[1] < 0 \/ new_head[1] >= HEIGHT
                \/ new_head[2] < 0 \/ new_head[2] >= WIDTH
                \/ new_head \in Range(s.body)
             THEN place_food_in(drawn, reset(s.food).body)
             ELSE IF new_head = s.food
                  THEN place_food_in(drawn, <<new_head>> \o s.body)
                  ELSE {s.food} :
            d \in {ai_direction(s)}} : TRUE
tick_food(s) == tick_food_in(RandCells, s)

\* ---------------------------------------------------------------- display
\* fmt_price: the number of decimals the price is written with (a model price p is
\* the float p/2, so "price >= 100" is p >= 200 and "price >= 1" is p >= 2).
fmt_price(price) ==
  IF price >= 200 THEN [dash |-> FALSE, decimals |-> 2, value |-> price]
  ELSE IF price >= 2 THEN [dash |-> FALSE, decimals |-> 4, value |-> price]
  ELSE [dash |-> FALSE, decimals |-> 5, value |-> price]

\* fmt_age: "waiting...", "<1s", "Ns" dimmed, or "Ns" in red from 60 s on.
fmt_age(a) ==
  IF a.inf THEN [text |-> "waiting...", n |-> 0]
  ELSE IF a.s < 1 THEN [text |-> "<1s", n |-> 0]
  ELSE IF a.s < 60 THEN [text |-> "Ns", n |-> a.s]
  ELSE [text |-> "red Ns", n |-> a.s]

\* render_row: the price and the age one row shows for a key at time t.  "if entry"
\* holds of every entry: an entry is a tuple of two.
render_row(store, t, key) ==
  LET entry == get(store, key)
  IN IF entry # None
     THEN [price_str |-> fmt_price(entry[1]), age_str |-> fmt_age(age(store, key, t))]
     ELSE [price_str |-> [dash |-> TRUE, decimals |-> 0, value |-> 0],
           age_str |-> [text |-> "waiting...", n |-> 0]]

\* The assets in the order of the list ASSETS.
AssetList == <<"BTC", "ETH", "SOL", "XRP">>

\* The keys of the rows of render, in the order of the rows: the section
\* COINBASE USD, then BINANCE USDT, then COINBASE USDT.
RowKeys ==
  [i \in 1..4 |-> CoinbaseKey(AssetList[i], "usd")]
  \o [i \in 1..4 |-> BinanceKey(AssetList[i])]
  \o [i \in 1..4 |-> CoinbaseKey(AssetList[i], "usdt")]

\* The lines of render that show prices: one render_row line per key, under its
\* section's heading.  (The title, the column heads, the snake and the footer
\* show no price.)
render(store, t) ==
  [i \in 1..Len(RowKeys) |->
     [kind |-> "row",
      section |-> CASE i <= 4 -> "COINBASE USD"
                    [] i <= 8 -> "BINANCE USDT"
                    [] OTHER -> "COINBASE USDT",
      key |-> RowKeys[i],
      row |-> render_row(store, t, RowKeys[i])]]

\* get_leaves, were the lookup self.prices.setdefault(key, (0, 0)).
get_leaves_setdefault(store, key) ==
  IF store[key] = None THEN [store EXCEPT ![key] = <<0, 0>>] ELSE store

\* The store after store.get(key) and store.age(key): self.prices.get(key) puts
\* nothing into the dict.
get_leaves(store, key) == store

\* The store after the render_row calls of render from row i on.
RECURSIVE render_leaves(_, _)
render_leaves(store, i) ==
  IF i > Len(RowKeys) THEN store
  ELSE render_leaves(get_leaves(store, RowKeys[i]), i + 1)

\* ------------------------------------------------------------------ steps
InitIn(drawn) ==
  /\ prices = [k \in Keys |-> None]
  /\ now = 0
  /\ st = [a \in Adapters |-> "connecting"]
  /\ wake = [a \in Adapters |-> 0]
  /\ sent = <<>>
  /\ dpc = "start"
  /\ \E food \in place_food_in(drawn, reset(<<0, 0>>).body) : snake = reset(food)
  /\ last = [k \in Keys |-> None]
  /\ replaced = <<>>
  /\ conns = "none"
  /\ wire = NoWire
  /\ proc = "running"
  /\ farewell = 0

Init == InitIn(RandCells)

\* AfterConnect, were coinbase_ws to receive without sending sub_msg.
AfterConnect_nosub(a) == "connected"

\* The state an adapter is in after "async with websockets.connect(...)" succeeds:
\* binance_ws starts to receive, coinbase_ws awaits ws.send(sub_msg) first.
AfterConnect(a) == IF a = "coinbase" THEN "subscribing" ELSE "connected"

\* The except clause: the connection is left, the error is printed, then
\* await asyncio.sleep(3).
Except(a) ==
  /\ st' = [st EXCEPT ![a] = "sleeping"]
  /\ wake' = [wake EXCEPT ![a] = now + RETRY_DELAY]
  /\ sent' = IF a = "coinbase" THEN <<>> ELSE sent

\* Catches, were the clause "except BaseException".
Catches_all(exc) == TRUE

\* Catches, were the clause "except ValueError" (JSONDecodeError is a ValueError).
Catches_value(exc) == exc \in {"ValueError", "JSONDecodeError"}

\* "except Exception" takes every exception but those that derive from
\* BaseException alone: asyncio.CancelledError, KeyboardInterrupt, SystemExit.
Catches(exc) == exc \notin {"CancelledError", "KeyboardInterrupt", "SystemExit"}

\* The exception leaves the coroutine: the connection is left and the task is done.
Uncaught(a) ==
  /\ st' = [st EXCEPT ![a] = "stopped"]
  /\ wake' = wake
  /\ sent' = IF a = "coinbase" THEN <<>> ELSE sent

\* The exception exc is raised inside the "try" of adapter a.
Raise(a, exc) == IF Catches(exc) THEN Except(a) ELSE Uncaught(a)

\* websockets.connect(...) succeeds.
Connect(a) ==
  /\ proc = "running"
  /\ st[a] = "connecting"
  /\ st' = [st EXCEPT ![a] = AfterConnect(a)]
  /\ conns' = IF a # "coinbase" THEN conns
              ELSE IF conns = "none" THEN "first" ELSE "again"
  /\ UNCHANGED <<prices, now, wake, sent, dpc, snake, last, replaced, wire,
                 proc, farewell>>

\* websockets.connect(...) raises.
ConnectFail(a) ==
  /\ proc = "running"
  /\ st[a] = "connecting"
  /\ Raise(a, "OSError")
  /\ UNCHANGED <<prices, now, dpc, snake, conns, last, replaced, wire, proc,
                 farewell>>

\* sub_msg of coinbase_ws (the dict that json.dumps is given; the list of the
\* product ids is read as a set).
sub_msg ==
  [type |-> "subscribe",
   channels |-> <<[name |-> "ticker", product_ids |-> DOMAIN COINBASE_PRODUCTS]>>]

\* What was sent on the connection after ws.send(sub_msg).
AfterSend(out) == Append(out, sub_msg)

\* await ws.send(sub_msg) in coinbase_ws succeeds; the adapter starts to receive.
Subscribe ==
  /\ proc = "running"
  /\ st["coinbase"] = "subscribing"
  /\ sent' = AfterSend(sent)
  /\ st' = [st EXCEPT !["coinbase"] = "connected"]
  /\ UNCHANGED <<prices, now, wake, dpc, snake, conns, last, replaced, wire,
                 proc, farewell>>

\* await ws.send(sub_msg) raises (the connection closed under it).
SubscribeFail ==
  /\ proc = "running"
  /\ st["coinbase"] = "subscribing"
  /\ Raise("coinbase", "ConnectionClosedError")
  /\ UNCHANGED <<prices, now, dpc, snake, conns, last, replaced, wire, proc,
                 farewell>>

\* A call store.update(key, price).
Update(key, price) ==
  /\ prices' = update(prices, key, price, now)
  /\ last' = [last EXCEPT ![key] = <<price, now>>]

\* One iteration of "async for msg in ws", the message coming to outcome o.
Handle(a, o) ==
  CASE o.kind = "update" ->
         /\ Update(o.key, o.price)
         /\ UNCHANGED <<now, st, wake, sent, dpc, snake, conns, replaced, proc,
                        farewell>>
    [] o.kind = "skip" ->
         UNCHANGED <<prices, now, st, wake, sent, dpc, snake, conns, last,
                     replaced, proc, farewell>>
    [] o.kind = "raise" ->
         /\ Raise(a, o.why)
         /\ UNCHANGED <<prices, now, dpc, snake, conns, last, replaced, proc,
                        farewell>>

Recv(a) ==
  /\ proc = "running"
  /\ st[a] = "connected"
  /\ \E o \in Outcomes(a) : Handle(a, o)
  /\ UNCHANGED wire

\* The same on a feed that quotes the one price 1.
RecvPlain(a) ==
  /\ proc = "running"
  /\ st[a] = "connected"
  /\ \E o \in PlainOutcomes(a) : Handle(a, o)
  /\ UNCHANGED wire

\* "async for msg in ws" raises ConnectionClosedError (abnormal close, ping timeout).
RecvError(a) ==
  /\ proc = "running"
  /\ st[a] = "connected"
  /\ Raise(a, "ConnectionClosedError")
  /\ UNCHANGED <<prices, now, dpc, snake, conns, last, replaced, wire, proc,
                 farewell>>

\* The server closes the connection normally (close code 1000 or 1001): the
\* iteration ends without an exception, the "async with" is left and "while True"
\* goes round to websockets.connect again.
Closed(a) ==
  /\ proc = "running"
  /\ st[a] = "connected"
  /\ st' = [st EXCEPT ![a] = "connecting"]
  /\ sent' = IF a = "coinbase" THEN <<>> ELSE sent
  /\ UNCHANGED <<prices, now, wake, dpc, snake, conns, last, replaced, wire,
                 proc, farewell>>

\* AfterSleep, were the adapter to return after its retry delay.
AfterSleep_stop(a) == "stopped"

\* The state an adapter is in after asyncio.sleep(3) returns: "while True" again.
AfterSleep(a) == "connecting"

\* asyncio.sleep(3) returns, no earlier than 3 seconds after it was called.
Wake(a) ==
  /\ proc = "running"
  /\ st[a] = "sleeping"
  /\ now >= wake[a]
  /\ st' = [st EXCEPT ![a] = AfterSleep(a)]
  /\ wake' = [wake EXCEPT ![a] = 0]
  /\ UNCHANGED <<prices, now, sent, dpc, snake, conns, last, replaced, wire,
                 proc, farewell>>

\* One second passes.
Tick ==
  /\ now < MaxTime
  /\ now' = now + 1
  /\ UNCHANGED <<prices, st, wake, sent, dpc, snake, conns, last, replaced,
                 wire, proc, farewell>>

\* One frame of display_loop: render(), which is snake.tick() and then the rows
\* read from the store, then await asyncio.sleep.
DisplayIn(drawn) ==
  /\ proc = "running"
  /\ dpc' = "sleeping"
  /\ \E food \in tick_food_in(drawn, snake) : snake' = tick(snake, food)
  /\ prices' = render_leaves(prices, 1)
  /\ UNCHANGED <<now, st, wake, sent, conns, last, replaced, wire, proc,
                 farewell>>

Display == DisplayIn(RandCells)

\* The frames of display_loop that are followed.
Frame == snake.tick_count < MaxFrames /\ Display

Next ==
  \/ \E a \in Adapters : Connect(a)
  \/ \E a \in Adapters : ConnectFail(a)
  \/ Subscribe
  \/ SubscribeFail
  \/ \E a \in Adapters : Recv(a)
  \/ \E a \in Adapters : RecvError(a)
  \/ \E a \in Adapters : Closed(a)
  \/ \E a \in Adapters : Wake(a)
  \/ Tick
  \/ Frame

Spec == Init /\ [][Next]_vars

\* The adapters on a feed that quotes the one price 1, the display loop and the
\* clock, with the fairness of the asyncio
\* event loop (a task whose await has completed is resumed), of a clock that
\* advances and of a network that accepts a connection and a subscription that
\* are tried again and again.
PlainNext ==
  \/ \E a \in Adapters : Connect(a)
  \/ \E a \in Adapters : ConnectFail(a)
  \/ Subscribe
  \/ SubscribeFail
  \/ \E a \in Adapters : RecvPlain(a)
  \/ \E a \in Adapters : RecvError(a)
  \/ \E a \in Adapters : Closed(a)
  \/ \E a \in Adapters : Wake(a)
  \/ Tick
  \/ Frame

FairSpec ==
  /\ Init
  /\ [][PlainNext]_vars
  /\ WF_vars(Tick)
  /\ \A a \in Adapters : WF_vars(Wake(a))
  /\ \A a \in Adapters : SF_vars(Connect(a))
  /\ SF_vars(Subscribe)

\* --------------------------------------------------- PriceStore on its own
\* The keys and prices of the direct calls.
StoreKeys == {BinanceKey("BTC"), CoinbaseKey("ETH", "usdt")}
StorePrices == 1..(2 * MaxPrice)

\* store.update(key, price) called by any caller.
StoreUpdate ==
  \E key \in StoreKeys, price \in StorePrices :
    /\ Update(key, price)
    /\ replaced' = <<key, prices[key]>>
    /\ UNCHANGED <<now, st, wake, sent, dpc, snake, conns, wire, proc, farewell>>

StoreNext == StoreUpdate \/ Tick

\* The PriceStore under any sequence of update calls and clock ticks.
StoreSpec == Init /\ [][StoreNext]_vars

\* ------------------------------------------------------ the snake on its own
\* The food cells drawn when the snake is followed on its own: the corner of the
\* grid up to row and column MaxFood.
SnakeCells == FoodCells(MaxFood)

\* One frame of display_loop, the games followed MaxTicks frames each.
SnakeFrame == snake.tick_count < MaxTicks /\ DisplayIn(SnakeCells)

\* The display loop alone, its snake playing game after game.
SnakeSpec == InitIn(SnakeCells) /\ [][SnakeFrame]_vars

\* --------------------------------------------------------- the interrupt
\* The tasks main runs under asyncio.gather.
Tasks == Adapters \cup {"display"}

\* The task is done.
Stopped(t) == IF t = "display" THEN dpc = "stopped" ELSE st[t] = "stopped"

\* Ctrl+C: asyncio.run cancels the main task, whose gather cancels its three tasks.
Interrupt ==
  /\ proc = "running"
  /\ proc' = "interrupted"
  /\ UNCHANGED <<prices, now, st, wake, sent, dpc, snake, conns, last, replaced,
                 wire, farewell>>

\* CancelledError is raised at the await adapter a is suspended at (connecting,
\* sending, receiving or sleeping), inside its "try" or its "except" clause.
Cancelled(a) ==
  /\ proc = "interrupted"
  /\ st[a] # "stopped"
  /\ Raise(a, "CancelledError")
  /\ UNCHANGED <<prices, now, dpc, snake, conns, last, replaced, wire, proc,
                 farewell>>

\* CancelledError is raised in display_loop, which has no "try".
DisplayCancelled ==
  /\ proc = "interrupted"
  /\ dpc # "stopped"
  /\ dpc' = "stopped"
  /\ UNCHANGED <<prices, now, st, wake, sent, snake, conns, last, replaced,
                 wire, proc, farewell>>

\* asyncio.run raises KeyboardInterrupt once its tasks are done; the except
\* clause prints "Terminal closed." and the process ends.
Exit ==
  /\ proc = "interrupted"
  /\ \A t \in Tasks : Stopped(t)
  /\ proc' = "exited"
  /\ farewell' = farewell + 1
  /\ UNCHANGED <<prices, now, st, wake, sent, dpc, snake, conns, last, replaced,
                 wire>>

IntNext ==
  \/ \E a \in Adapters : Connect(a)
  \/ \E a \in Adapters : ConnectFail(a)
  \/ Subscribe
  \/ SubscribeFail
  \/ \E a \in Adapters : RecvPlain(a)
  \/ \E a \in Adapters : RecvError(a)
  \/ \E a \in Adapters : Closed(a)
  \/ \E a \in Adapters : Wake(a)
  \/ Tick
  \/ Frame
  \/ Interrupt
  \/ \E a \in Adapters : Cancelled(a)
  \/ DisplayCancelled
  \/ Exit

\* The program on the plain feed with a Ctrl+C at any moment; the event loop
\* resumes a cancelled task and asyncio.run returns once its tasks are done.
IntSpec ==
  /\ Init
  /\ [][IntNext]_vars
  /\ \A a \in Adapters : WF_vars(Cancelled(a))
  /\ WF_vars(DisplayCancelled)
  /\ WF_vars(Exit)

\* ------------------------------------------- one message through its handler
\* The symbols a Binance trade is taken to name: those of the four assets in
\* lower, upper and mixed case, one that is not tracked, and none.
WireSymbols ==
  {"btcusdt", "BTCUSDT", "BtcUsdt", "ethusdt", "ETHUSDT", "solusdt", "SOLUSDT",
   "xrpusdt", "XrpUsdt", "dogeusdt", Absent}

WireBinanceMsgs ==
  BinanceMsgs(PriceFields)
  \cup {[json |-> TRUE, data |-> NoData, s |-> s, p |-> p] :
           s \in WireSymbols, p \in PriceFields}
  \cup {[json |-> TRUE, data |-> [has |-> TRUE, s |-> s, p |-> p],
         s |-> Absent, p |-> Missing] : s \in WireSymbols, p \in PriceFields}

\* The Coinbase messages of the feed, and the tickers of all eight products.
WireCoinbaseMsgs ==
  CoinbaseMsgs(PriceFields)
  \cup {CoinbaseMsg(TRUE, "ticker", p, b, a, x) :
           p \in DOMAIN COINBASE_PRODUCTS,
           b \in PriceFields, a \in PriceFields, x \in PriceFields}

WireMsgs(a) == IF a = "binance" THEN WireBinanceMsgs ELSE WireCoinbaseMsgs

\* The body of "async for msg in ws" of adapter a.
OnMessage(a, m) ==
  IF a = "binance" THEN BinanceOnMessage(m) ELSE CoinbaseOnMessage(m)

\* One iteration of "async for msg in ws" of adapter a on the message m, which is
\* the one message followed.
Deliver(a) ==
  /\ proc = "running"
  /\ st[a] = "connected"
  /\ wire = NoWire
  /\ \E m \in WireMsgs(a) :
       /\ Handle(a, OnMessage(a, m))
       /\ wire' = [to |-> a, m |-> m]

\* What comes before the message followed: connections and the plain feed.
Before ==
  /\ wire = NoWire
  /\ \/ \E a \in Adapters : Connect(a)
     \/ Subscribe
     \/ \E a \in Adapters : RecvPlain(a)
     \/ Tick

WireNext == Before \/ \E a \in Adapters : Deliver(a)

\* Any one message of either feed, handled by its adapter after some history.
WireSpec == Init /\ [][WireNext]_vars

\* ------------------------------------------------------------------ claims
KeysOf(a) ==
  IF a = "binance" THEN {BinanceKey(x) : x \in ASSETS}
  ELSE {CoinbaseKey(x, q) : x \in ASSETS, q \in {"usd", "usdt"}}

\* C1: every price held in the store is strictly greater than 0 (an adapter
\* discards a non-positive price instead of calling store.update with it).
C1_StoredPricesPositive ==
  \A k \in Keys : prices[k] # None => prices[k][1] > 0

\* C2: after any sequence of update calls, get(key) returns the price of the last
\* update call on that key, whatever the prices' order of magnitude; and a key
\* has an entry as soon as it was updated.
C2_LastWriteWins ==
  \A k \in Keys :
    /\ (last[k] = None) <=> (get(prices, k) = None)
    /\ last[k] # None => get(prices, k)[1] = last[k][1]

\* C2 witness: the last update call replaced a strictly higher price on its key,
\* while another key holds an entry, and get returns the lower, later price.
C2_Witness ==
  /\ replaced # <<>>
  /\ replaced[2] # None
  /\ get(prices, replaced[1])[1] < replaced[2][1]
  /\ get(prices, replaced[1])[2] > replaced[2][2]
  /\ \E k \in Keys \ {replaced[1]} : prices[k] # None

\* C3: a message whose JSON decodes but whose price cannot be extracted (the price
\* field missing: KeyError; not numeric: ValueError) is discarded and the adapter
\* stays connected.
C3_MalformedKeepsConnection ==
  [][\A a \in Adapters : \A o \in Outcomes(a) :
       (/\ st[a] = "connected"
        /\ o.kind = "raise"
        /\ o.why \in {"KeyError", "ValueError"}
        /\ Handle(a, o))
       => st'[a] = "connected"]_vars

\* C4: an adapter never goes from a connection back to connecting without the
\* 3-second delay in between: no step takes it from connected (or subscribing)
\* straight to connecting.
C4_AlwaysDelayBeforeReconnect ==
  [][\A a \in Adapters :
       st[a] \in {"connected", "subscribing"} => st'[a] # "connecting"]_vars

\* C5: while one adapter is in its retry delay the display loop and the other
\* adapter can take their steps (a connected one can update the store); an
\* adapter in a retry delay that ends within the clock's horizon comes to be
\* connected again, or fails again into a delay that ends beyond the horizon;
\* and a connected adapter can update the store.
C5_OthersRun ==
  \A a \in Adapters :
    st[a] = "sleeping" =>
      /\ ENABLED Display
      /\ \A b \in Adapters \ {a} :
           /\ st[b] = "connecting" => ENABLED Connect(b)
           /\ st[b] = "connected" => ENABLED (Recv(b) /\ prices' # prices)
C5_Resilience ==
  /\ [] C5_OthersRun
  /\ [] (\A a \in Adapters :
           st[a] = "connected" => ENABLED (Recv(a) /\ prices' # prices))
  /\ \A a \in Adapters :
       (st[a] = "sleeping" /\ wake[a] <= MaxTime)
         ~> (st[a] = "connected" \/ (st[a] = "sleeping" /\ wake[a] > MaxTime))

\* C5 witness: the Binance adapter is in its retry delay after a connection on
\* which it updated the store, the Coinbase adapter updated the store during
\* that delay over a connection made again, and a frame was rendered.
C5_Witness ==
  /\ st["binance"] = "sleeping"
  /\ prices[BinanceKey("BTC")] # None
  /\ prices[CoinbaseKey("BTC", "usd")] # None
  /\ prices[CoinbaseKey("BTC", "usd")][2] > wake["binance"] - RETRY_DELAY
  /\ st["coinbase"] = "connected"
  /\ conns = "again"
  /\ dpc = "sleeping"

\* C6: a stored entry is the complete <<price, time>> pair of one update call, and
\* the price and the age a row shows for a key are those of that same call.
C6_NoTornPair ==
  \A k \in Keys :
    /\ prices[k] = last[k]
    /\ last[k] # None =>
         LET row == render_row(prices, now, k)
         IN /\ ~row.price_str.dash
            /\ row.price_str.value = last[k][1]
            /\ row.age_str = fmt_age([inf |-> FALSE, s |-> now - last[k][2]])

\* C6 witness: a frame was rendered while two keys hold entries written at
\* different times with different prices, one of them overwritten after the clock
\* had advanced.
C6_Witness ==
  /\ dpc = "sleeping"
  /\ prices[BinanceKey("BTC")] # None
  /\ prices[CoinbaseKey("BTC", "usd")] # None
  /\ prices[BinanceKey("BTC")][2] > prices[CoinbaseKey("BTC", "usd")][2]
  /\ prices[BinanceKey("BTC")][1] # prices[CoinbaseKey("BTC", "usd")][1]
  /\ now > prices[BinanceKey("BTC")][2]

\* C7: a key is reported absent (get returns None, age is infinite, the row shows
\* the dash and "waiting...") exactly when no update on it ever happened; a
\* written key has a finite age and is never shown as waiting.
C7_AbsentIffNeverWritten ==
  \A k \in Keys :
    LET row == render_row(prices, now, k)
    IN /\ (last[k] = None) <=> (get(prices, k) = None)
       /\ (last[k] = None) <=> age(prices, k, now).inf
       /\ (last[k] = None) <=> row.price_str.dash
       /\ (last[k] = None) <=> (row.age_str.text = "waiting...")

\* C7 witness: a frame was rendered while one key holds a price of 0 written
\* RETRY_DELAY seconds ago or earlier and another key was never written.
C7_Witness ==
  /\ dpc = "sleeping"
  /\ \E k \in Keys :
       /\ prices[k] # None
       /\ prices[k][1] = 0
       /\ now - prices[k][2] >= RETRY_DELAY
  /\ \E k \in Keys : last[k] = None

\* C8: a key that has an entry has one in every later state: no step removes an
\* entry.
C8_NoEviction ==
  [][\A k \in Keys : prices[k] # None => prices'[k] # None]_vars

\* C8 witness: an adapter is connecting again after its retry delay while its key
\* still holds the entry written RETRY_DELAY seconds ago or earlier, and a frame
\* was rendered.
C8_Witness ==
  /\ dpc = "sleeping"
  /\ st["coinbase"] = "connecting"
  /\ conns # "none"
  /\ prices[CoinbaseKey("BTC", "usd")] # None
  /\ now - prices[CoinbaseKey("BTC", "usd")][2] >= RETRY_DELAY

\* C9: the age of a written key is never negative, does not decrease in a step
\* that leaves the key's entry alone (an update on another key, a clock tick), and
\* is 0 right after an update on the key.
C9_AgeMonotone ==
  [][\A k \in Keys :
       LET a0 == age(prices, k, now)
           a1 == age(prices', k, now')
       IN /\ ~a1.inf => a1.s >= 0
          /\ (~a0.inf /\ last'[k] = last[k]) => (~a1.inf /\ a1.s >= a0.s)
          /\ last'[k] # last[k] => (~a1.inf /\ a1.s = 0)]_vars

\* C9 witness: an update has just set the age of a key back to 0 from an entry
\* written earlier, while another key's entry has an age above 0.
C9_Witness ==
  /\ replaced # <<>>
  /\ replaced[2] # None
  /\ replaced[2][2] < now
  /\ age(prices, replaced[1], now).s = 0
  /\ \E k \in Keys \ {replaced[1]} : prices[k] # None /\ age(prices, k, now).s > 0

\* C10: on a connection of coinbase_ws nothing is sent but one subscribe request,
\* which names the channel "ticker" and the eight products; it has been sent, once,
\* whenever the adapter receives; and a store update on a Coinbase key happens
\* only on a connection whose subscribe request was sent.
C10_OneRequest ==
  /\ Len(sent) = 1
  /\ sent[1].type = "subscribe"
  /\ Len(sent[1].channels) = 1
  /\ sent[1].channels[1].name = "ticker"
  /\ sent[1].channels[1].product_ids =
       {"BTC-USD", "BTC-USDT", "ETH-USD", "ETH-USDT",
        "SOL-USD", "SOL-USDT", "XRP-USD", "XRP-USDT"}
C10_SubscribedOnce ==
  /\ sent = <<>> \/ C10_OneRequest
  /\ st["coinbase"] = "connected" => C10_OneRequest
  /\ st["coinbase"] # "connected" => sent = <<>>
C10_SubscribeBeforeMessages ==
  /\ [] C10_SubscribedOnce
  /\ [][\A k \in KeysOf("coinbase") :
          prices'[k] # prices[k] => (C10_OneRequest /\ sent' = sent)]_vars

\* C10 witness: coinbase_ws is receiving on a connection made again, its one
\* subscribe request sent, and has updated the store at the present time.
C10_Witness ==
  /\ st["coinbase"] = "connected"
  /\ conns = "again"
  /\ Len(sent) = 1
  /\ now >= RETRY_DELAY
  /\ prices[CoinbaseKey("BTC", "usd")] # None
  /\ prices[CoinbaseKey("BTC", "usd")][2] = now

\* The step handles the one message followed, in adapter a.
Delivered(a) == wire = NoWire /\ wire' # NoWire /\ wire'.to = a

\* The key each Coinbase product is to be written to.
ProductKey(p) ==
  CASE p = "BTC-USD" -> "coinbase_BTC_usd" [] p = "BTC-USDT" -> "coinbase_BTC_usdt"
    [] p = "ETH-USD" -> "coinbase_ETH_usd" [] p = "ETH-USDT" -> "coinbase_ETH_usdt"
    [] p = "SOL-USD" -> "coinbase_SOL_usd" [] p = "SOL-USDT" -> "coinbase_SOL_usdt"
    [] p = "XRP-USD" -> "coinbase_XRP_usd" [] p = "XRP-USDT" -> "coinbase_XRP_usdt"
    [] OTHER -> "no key"

\* The key each Binance symbol is to be written to, in whatever letter case.
SymbolKey(sym) ==
  CASE sym \in {"btcusdt", "BTCUSDT", "BtcUsdt"} -> "binance_BTC"
    [] sym \in {"ethusdt", "ETHUSDT"} -> "binance_ETH"
    [] sym \in {"solusdt", "SOLUSDT"} -> "binance_SOL"
    [] sym \in {"xrpusdt", "XrpUsdt"} -> "binance_XRP"
    [] OTHER -> "no key"

\* The message is a Coinbase ticker of one of the eight products.
KnownTicker(m) == m.json /\ m.type = "ticker" /\ ProductKey(m.product_id) # "no key"

\* The field is there and is a number above 0.
Positive(field) == field.kind = "num" /\ field.v > 0

\* C11: a Coinbase ticker of a known product with best_bid and best_ask both there
\* and above 0 writes (bid+ask)/2; any other writes nothing or the price field, and
\* writes the price field when that is a number and neither side is unreadable.
C11_MidOrLastTrade ==
  [][Delivered("coinbase") /\ KnownTicker(wire'.m) =>
       LET m == wire'.m
           key == ProductKey(m.product_id)
       IN IF Positive(m.best_bid) /\ Positive(m.best_ask)
          THEN prices'[key] = <<m.best_bid.v + m.best_ask.v, now>>
          ELSE /\ prices'[key] \in {prices[key], <<2 * m.price.v, now>>}
               /\ prices'[key] # prices[key] => m.price.kind = "num"
               /\ (/\ m.price.kind = "num"
                   /\ m.best_bid.kind # "text"
                   /\ m.best_ask.kind # "text")
                  => prices'[key] = <<2 * m.price.v, now>>]_vars

\* C11 witness: a BTC-USDT ticker with bid 0, ask 2 and price 1 was handled after
\* the clock had advanced, and its key holds the price 1 (2 half-units).
C11_Witness ==
  /\ wire # NoWire
  /\ wire.to = "coinbase"
  /\ wire.m = CoinbaseMsg(TRUE, "ticker", "BTC-USDT", Num(0), Num(2), Num(1))
  /\ now > 0
  /\ prices["coinbase_BTC_usdt"] = <<2, now>>

\* The symbol a Binance message names: that of "data" when it has one.
NamedSymbol(m) == IF m.data.has THEN m.data.s ELSE m.s

\* C12: a message that decodes and names an unknown (or no) Binance symbol or
\* Coinbase product, or is a Coinbase message of a type other than "ticker",
\* leaves the store as it is and the adapter connected on its connection.
C12_UnknownDropped ==
  [][(\/ /\ Delivered("binance")
         /\ wire'.m.json
         /\ SymbolKey(NamedSymbol(wire'.m)) = "no key"
      \/ /\ Delivered("coinbase")
         /\ wire'.m.json
         /\ wire'.m.type # "ticker" \/ ProductKey(wire'.m.product_id) = "no key")
     => /\ prices' = prices
        /\ st' = st
        /\ st[wire'.to] = "connected"
        /\ sent' = sent
        /\ wake' = wake]_vars

\* C12 witness: a Binance trade of the untracked symbol dogeusdt, with a price, was
\* handled while the store holds an entry, and the adapter is connected.
C12_Witness ==
  /\ wire # NoWire
  /\ wire.to = "binance"
  /\ wire.m = [json |-> TRUE, data |-> NoData, s |-> "dogeusdt", p |-> Num(1)]
  /\ st["binance"] = "connected"
  /\ prices["binance_BTC"] # None
  /\ prices["coinbase_BTC_usd"] # None

\* C13: without a user interrupt no task started by main ever ends, whatever
\* errors its connections and messages bring: the process keeps running.
C13_NoTaskEnds ==
  /\ proc = "running"
  /\ farewell = 0
  /\ \A t \in Tasks : ~Stopped(t)

\* C13 witness: both adapters are in a retry delay after errors at different
\* times, the Coinbase one on a connection made again, and frames are rendered.
C13_Witness ==
  /\ st["binance"] = "sleeping"
  /\ st["coinbase"] = "sleeping"
  /\ wake["binance"] # wake["coinbase"]
  /\ conns = "again"
  /\ dpc = "sleeping"
  /\ prices["binance_BTC"] # None

\* C14: no task is done while the process runs; after a user interrupt the store
\* is not written again, every task comes to be done and the process exits, having
\* printed "Terminal closed." exactly once; and nothing happens after the exit.
C14_WhileRunning ==
  proc = "running" => (farewell = 0 /\ \A t \in Tasks : ~Stopped(t))
C14_AfterExit ==
  proc = "exited" => (farewell = 1 /\ \A t \in Tasks : Stopped(t))
C14_InterruptTerminates ==
  /\ [] C14_WhileRunning
  /\ [] C14_AfterExit
  /\ [] (proc # "exited" => farewell = 0)
  /\ [][proc # "running" => (prices' = prices /\ last' = last)]_vars
  /\ [][proc = "exited" => UNCHANGED <<st, dpc, snake, proc, farewell>>]_vars
  /\ (proc = "interrupted") ~> (proc = "exited")

\* C14 witness: the process has exited with the one message; the interrupt came
\* while the Binance adapter was in a retry delay (its sleep had not ended) and the
\* Coinbase adapter had written the store in the present second.
C14_Witness ==
  /\ proc = "exited"
  /\ farewell = 1
  /\ wake["binance"] > now
  /\ prices["coinbase_BTC_usd"] # None
  /\ prices["coinbase_BTC_usd"][2] = now
  /\ \A t \in Tasks : Stopped(t)

\* C15: main runs a third source adapter, the polling one, beside the two
\* streaming adapters.
C15_ThirdSourceRuns ==
  \E t \in Tasks \ {"display"} : t \notin {"binance", "coinbase"} /\ ~Stopped(t)

\* The keys that can hold a price of the asset.
CandidateKeys(asset) == {k \in Range(RowKeys) : \E i \in 1..4 :
                           /\ AssetList[i] = asset
                           /\ k \in {RowKeys[i], RowKeys[i + 4], RowKeys[i + 8]}}

\* C16: for each asset, render shows a grand average exactly when at least 3 of
\* its candidate keys hold a price, and it is the mean of the prices held.
C16_GrandAverage ==
  \A asset \in ASSETS :
    LET present == {k \in CandidateKeys(asset) : prices[k] # None}
        lines == Range(render(prices, now))
    IN (Cardinality(present) >= 3) <=>
         (\E l \in lines : l.kind = "grand average" /\ l.key = asset)

\* C18: a step of the display loop (the snake's tick count changes in it)
\* changes the snake and the loop's own position and nothing else: the store is
\* entry for entry what it was.
C18_RenderReadsOnly ==
  [][snake' # snake =>
       /\ \A k \in Keys : prices'[k] = prices[k]
       /\ UNCHANGED <<now, st, wake, sent, proc, farewell>>]_vars

\* C18 witness: two frames were rendered, the second of which moved the snake,
\* while the store holds an entry under one key and none under another.
C18_Witness ==
  /\ dpc = "sleeping"
  /\ snake.tick_count = 2
  /\ snake.body[1] # reset(snake.food).body[1]
  /\ prices["binance_BTC"] # None
  /\ prices["coinbase_BTC_usd"] = None
  /\ prices["binance_BTC"][2] < now

\* The key the message followed is to be written to, "no key" when it names no
\* tracked symbol or product or is no trade or ticker at all.
TargetKey(a, m) ==
  IF ~m.json THEN "no key"
  ELSE IF a = "binance" THEN SymbolKey(NamedSymbol(m))
  ELSE IF KnownTicker(m) THEN ProductKey(m.product_id)
  ELSE "no key"

\* C17: a message leaves every key but its own as it is: a ticker of X-USD can
\* write coinbase_X_usd only, one of X-USDT coinbase_X_usdt only, a Binance trade of
\* xusdt in any letter case binance_X only, any other message nothing; and a
\* Binance trade with a numeric price, or a ticker with bid and ask above 0,
\* does write its key at the present time.
C17_KeyRouting ==
  [][\A a \in Adapters : Delivered(a) =>
       LET m == wire'.m
           target == TargetKey(a, m)
           p == IF m.data.has THEN m.data.p ELSE m.p
       IN /\ \A k \in Keys \ {target} : prices'[k] = prices[k]
          /\ (a = "binance" /\ target # "no key" /\ p.kind = "num")
               => prices'[target] = <<2 * p.v, now>>
          /\ (a = "coinbase" /\ target # "no key"
                /\ Positive(m.best_bid) /\ Positive(m.best_ask))
               => (prices'[target] # None /\ prices'[target][2] = now)
          /\ a = "binance" =>
               target \in {"no key", "binance_BTC", "binance_ETH",
                           "binance_SOL", "binance_XRP"}
          /\ a = "coinbase" =>
               target \notin {"binance_BTC", "binance_ETH",
                              "binance_SOL", "binance_XRP"}]_vars

\* C17 witness: a ticker of ETH-USDT with bid 1 and ask 2 was handled and wrote
\* coinbase_ETH_usdt, while coinbase_ETH_usd and binance_ETH hold nothing and the
\* keys of BTC hold what the plain feed wrote.
C17_Witness ==
  /\ wire # NoWire
  /\ wire.to = "coinbase"
  /\ wire.m = CoinbaseMsg(TRUE, "ticker", "ETH-USDT", Num(1), Num(2), Num(0))
  /\ prices["coinbase_ETH_usdt"] = <<3, now>>
  /\ prices["coinbase_ETH_usd"] = None
  /\ prices["binance_ETH"] = None
  /\ prices["binance_BTC"] # None
  /\ prices["coinbase_BTC_usd"] # None

\* C19: the high score never decreases, and right after a tick that ends in a
\* collision (the tick count is back to 0) it is at least the score held just
\* before.
C19_HighScoreSurvives ==
  [][/\ snake'.high_score >= snake.high_score
     /\ snake'.tick_count = 0 => snake'.high_score >= snake.score]_vars

\* The cells of the grid.
InGrid(cell) ==
  /\ 0 <= cell[1] /\ cell[1] < 12
  /\ 0 <= cell[2] /\ cell[2] < 56

\* C20: every body cell and the food cell lie inside the grid of 12 rows and 56
\* columns, the body is not empty and no cell is in it twice.
C20_SnakeInGrid ==
  /\ Len(snake.body) >= 1
  /\ \A i \in 1..Len(snake.body) : InGrid(snake.body[i])
  /\ InGrid(snake.food)
  /\ \A i, j \in 1..Len(snake.body) : i # j => snake.body[i] # snake.body[j]

\* C20 witness: the snake has eaten three times and the food was then placed by
\* the fallback, on the cell (0, 0) under its own body.
C20_Witness ==
  /\ dpc = "sleeping"
  /\ snake.score >= 3
  /\ snake.food = <<0, 0>>
  /\ snake.food \in Range(snake.body)
  /\ Len(snake.body) = snake.score + 3

====
